---- MODULE Spec2Model ----
(***************************************************************************)
(* The SQL statement splitter (splitStatements) as a state machine.        *)
(*                                                                         *)
(* A text is a sequence of one-character strings.  The cursor i is the     *)
(* 0-based index of the source; At(s, k) is the JavaScript s[k], which is  *)
(* undefined past the end.  One action is one iteration of the outer       *)
(* while loop, i.e. one handler run up to its `continue`; the inner loops  *)
(* of the handlers are RECURSIVE operators that return the cursor and the  *)
(* buffer they leave behind.                                               *)
(***************************************************************************)
EXTENDS Integers, Sequences, FiniteSets, TLC

(* ------------------------------ bounds -------------------------------- *)

\* Longest text of the exhaustively enumerated inputs.
MaxLen == 2

\* Longest text of the inputs enumerated over a three-character alphabet.
MaxFocusLen == 5

(* ---------------------------- characters ------------------------------ *)

Letters ==
  {"a","b","c","d","e","f","g","h","i","j","k","l","m","n","o","p","q","r","s","t",
   "u","v","w","x","y","z",
   "A","B","C","D","E","F","G","H","I","J","K","L","M","N","O","P","Q","R","S","T",
   "U","V","W","X","Y","Z"}

Digits == {"0","1","2","3","4","5","6","7","8","9"}

\* sql[j].match(/[a-zA-Z0-9_]/)
IsTagChar(c) == c \in Letters \cup Digits \cup {"_"}

\* The characters String.prototype.trim removes (those the inputs can hold).
IsWhitespace(c) == c \in {" ", "\n", "\t", "\r"}

\* The backtick character (a TLA+ string literal cannot hold one).
BacktickChar == "backtick"

\* The value of s[k] for k >= s.length.
Undefined == "undefined"

\* s[k], 0-based.
At(s, k) == IF k >= 0 /\ k < Len(s) THEN s[k + 1] ELSE Undefined

\* s.substring(from, to), 0-based, to exclusive.
Substring(s, from, to) == SubSeq(s, from + 1, to)

RECURSIVE TrimStart(_)
TrimStart(s) ==
  IF s # <<>> /\ IsWhitespace(Head(s)) THEN TrimStart(Tail(s)) ELSE s

RECURSIVE TrimEnd(_)
TrimEnd(s) ==
  IF s # <<>> /\ IsWhitespace(s[Len(s)]) THEN TrimEnd(SubSeq(s, 1, Len(s) - 1)) ELSE s

\* current.trim()
Trim(s) == TrimEnd(TrimStart(s))

(* ------------------------- dialect configuration ---------------------- *)

DatabaseType == {"postgresql", "mysql", "mssql", "sqlite"}

\* SQL_PARSER_CONFIGS with the sqlite entry copied from mssql (no backtick
\* identifiers).
SQL_PARSER_CONFIGS_SqliteAsMssql ==
  [d \in DatabaseType |->
     CASE d = "postgresql" ->
            [dollarQuotes |-> TRUE, nestedBlockComments |-> TRUE,
             backtickIdentifiers |-> FALSE, backslashEscape |-> FALSE,
             hashLineComment |-> FALSE, bracketIdentifiers |-> FALSE]
       [] d = "mysql" ->
            [dollarQuotes |-> FALSE, nestedBlockComments |-> FALSE,
             backtickIdentifiers |-> TRUE, backslashEscape |-> TRUE,
             hashLineComment |-> TRUE, bracketIdentifiers |-> FALSE]
       [] d \in {"mssql", "sqlite"} ->
            [dollarQuotes |-> FALSE, nestedBlockComments |-> FALSE,
             backtickIdentifiers |-> FALSE, backslashEscape |-> FALSE,
             hashLineComment |-> FALSE, bracketIdentifiers |-> TRUE]]

SQL_PARSER_CONFIGS ==
  [d \in DatabaseType |->
     CASE d = "postgresql" ->
            [dollarQuotes |-> TRUE, nestedBlockComments |-> TRUE,
             backtickIdentifiers |-> FALSE, backslashEscape |-> FALSE,
             hashLineComment |-> FALSE, bracketIdentifiers |-> FALSE]
       [] d = "mysql" ->
            [dollarQuotes |-> FALSE, nestedBlockComments |-> FALSE,
             backtickIdentifiers |-> TRUE, backslashEscape |-> TRUE,
             hashLineComment |-> TRUE, bracketIdentifiers |-> FALSE]
       [] d = "mssql" ->
            [dollarQuotes |-> FALSE, nestedBlockComments |-> FALSE,
             backtickIdentifiers |-> FALSE, backslashEscape |-> FALSE,
             hashLineComment |-> FALSE, bracketIdentifiers |-> TRUE]
       [] d = "sqlite" ->
            [dollarQuotes |-> FALSE, nestedBlockComments |-> FALSE,
             backtickIdentifiers |-> TRUE, backslashEscape |-> FALSE,
             hashLineComment |-> FALSE, bracketIdentifiers |-> TRUE]]

(* ------------------------ the handlers' inner loops ------------------- *)

\* What an inner loop leaves: the cursor and the buffer.
Scan(k, cur) == [i |-> k, current |-> cur]

\* ScanSingleQuoted with the inner loop left out: the cursor stays after
\* the opening quote.
ScanSingleQuoted_NoLoop(s, config, k, cur) == Scan(k, cur)

\* ScanSingleQuoted with the backslash branch left out.
RECURSIVE ScanSingleQuoted_NoBackslash(_, _, _, _)
ScanSingleQuoted_NoBackslash(s, config, k, cur) ==
  IF ~(k < Len(s)) THEN Scan(k, cur)
  ELSE IF At(s, k) = "'" /\ At(s, k + 1) = "'"
    THEN ScanSingleQuoted_NoBackslash(s, config, k + 2, cur \o <<"'", "'">>)
  ELSE IF At(s, k) = "'"
    THEN Scan(k + 1, cur \o <<"'">>)
  ELSE ScanSingleQuoted_NoBackslash(s, config, k + 1, cur \o <<At(s, k)>>)

\* ScanSingleQuoted with the backslash branch taken whatever the flag.
RECURSIVE ScanSingleQuoted_BackslashAlways(_, _, _, _)
ScanSingleQuoted_BackslashAlways(s, config, k, cur) ==
  IF ~(k < Len(s)) THEN Scan(k, cur)
  ELSE IF At(s, k) = "'" /\ At(s, k + 1) = "'"
    THEN ScanSingleQuoted_BackslashAlways(s, config, k + 2, cur \o <<"'", "'">>)
  ELSE IF At(s, k) = "\\" /\ At(s, k + 1) = "'"
    THEN ScanSingleQuoted_BackslashAlways(s, config, k + 2, cur \o <<"\\", "'">>)
  ELSE IF At(s, k) = "'"
    THEN Scan(k + 1, cur \o <<"'">>)
  ELSE ScanSingleQuoted_BackslashAlways(s, config, k + 1, cur \o <<At(s, k)>>)

\* ScanSingleQuoted with a backslash taking the character after it,
\* whatever it is.
RECURSIVE ScanSingleQuoted_BackslashPair(_, _, _, _)
ScanSingleQuoted_BackslashPair(s, config, k, cur) ==
  IF ~(k < Len(s)) THEN Scan(k, cur)
  ELSE IF At(s, k) = "'" /\ At(s, k + 1) = "'"
    THEN ScanSingleQuoted_BackslashPair(s, config, k + 2, cur \o <<"'", "'">>)
  ELSE IF config.backslashEscape /\ At(s, k) = "\\" /\ k + 1 < Len(s)
    THEN ScanSingleQuoted_BackslashPair(s, config, k + 2,
                                        cur \o <<"\\", At(s, k + 1)>>)
  ELSE IF At(s, k) = "'"
    THEN Scan(k + 1, cur \o <<"'">>)
  ELSE ScanSingleQuoted_BackslashPair(s, config, k + 1, cur \o <<At(s, k)>>)

\* Single-quoted string, after the opening quote.
RECURSIVE ScanSingleQuoted(_, _, _, _)
ScanSingleQuoted(s, config, k, cur) ==
  IF ~(k < Len(s)) THEN Scan(k, cur)
  ELSE IF At(s, k) = "'" /\ At(s, k + 1) = "'"
    THEN ScanSingleQuoted(s, config, k + 2, cur \o <<"'", "'">>)
  ELSE IF config.backslashEscape /\ At(s, k) = "\\" /\ At(s, k + 1) = "'"
    THEN ScanSingleQuoted(s, config, k + 2, cur \o <<"\\", "'">>)
  ELSE IF At(s, k) = "'"
    THEN Scan(k + 1, cur \o <<"'">>)
  ELSE ScanSingleQuoted(s, config, k + 1, cur \o <<At(s, k)>>)

\* ScanDoubleQuoted with the doubled-quote branch left out.
RECURSIVE ScanDoubleQuoted_NoDoubling(_, _, _)
ScanDoubleQuoted_NoDoubling(s, k, cur) ==
  IF ~(k < Len(s)) THEN Scan(k, cur)
  ELSE IF At(s, k) = "\""
    THEN Scan(k + 1, cur \o <<"\"">>)
  ELSE ScanDoubleQuoted_NoDoubling(s, k + 1, cur \o <<At(s, k)>>)

\* Double-quoted identifier, after the opening quote.
RECURSIVE ScanDoubleQuoted(_, _, _)
ScanDoubleQuoted(s, k, cur) ==
  IF ~(k < Len(s)) THEN Scan(k, cur)
  ELSE IF At(s, k) = "\"" /\ At(s, k + 1) = "\""
    THEN ScanDoubleQuoted(s, k + 2, cur \o <<"\"", "\"">>)
  ELSE IF At(s, k) = "\""
    THEN Scan(k + 1, cur \o <<"\"">>)
  ELSE ScanDoubleQuoted(s, k + 1, cur \o <<At(s, k)>>)

\* Backtick-quoted identifier, after the opening backtick.
RECURSIVE ScanBacktick(_, _, _)
ScanBacktick(s, k, cur) ==
  IF ~(k < Len(s)) THEN Scan(k, cur)
  ELSE IF At(s, k) = BacktickChar /\ At(s, k + 1) = BacktickChar
    THEN ScanBacktick(s, k + 2, cur \o <<BacktickChar, BacktickChar>>)
  ELSE IF At(s, k) = BacktickChar
    THEN Scan(k + 1, cur \o <<BacktickChar>>)
  ELSE ScanBacktick(s, k + 1, cur \o <<At(s, k)>>)

\* ScanBracket with the doubled-bracket branch left out.
RECURSIVE ScanBracket_NoDoubling(_, _, _)
ScanBracket_NoDoubling(s, k, cur) ==
  IF ~(k < Len(s)) THEN Scan(k, cur)
  ELSE IF At(s, k) = "]"
    THEN Scan(k + 1, cur \o <<"]">>)
  ELSE ScanBracket_NoDoubling(s, k + 1, cur \o <<At(s, k)>>)

\* Bracket-quoted identifier, after the opening bracket.
RECURSIVE ScanBracket(_, _, _)
ScanBracket(s, k, cur) ==
  IF ~(k < Len(s)) THEN Scan(k, cur)
  ELSE IF At(s, k) = "]" /\ At(s, k + 1) = "]"
    THEN ScanBracket(s, k + 2, cur \o <<"]", "]">>)
  ELSE IF At(s, k) = "]"
    THEN Scan(k + 1, cur \o <<"]">>)
  ELSE ScanBracket(s, k + 1, cur \o <<At(s, k)>>)

\* The tag search of the dollar-quote handler: from j, with the tag so far.
RECURSIVE ScanTag(_, _, _)
ScanTag(s, j, tag) ==
  IF j < Len(s) /\ (IsTagChar(At(s, j)) \/ At(s, j) = "$")
    THEN IF At(s, j) = "$"
           THEN [tag |-> tag \o <<At(s, j)>>, j |-> j + 1]
           ELSE ScanTag(s, j + 1, tag \o <<At(s, j)>>)
    ELSE [tag |-> tag, j |-> j]

\* let tag = '$'; let j = i + 1; while ...
DollarTag(s, k) == ScanTag(s, k + 1, <<"$">>)

\* ValidTag without the test for the closing `$`.
ValidTag_NoEndCheck(tag) == Len(tag) >= 2

\* tag.endsWith('$') && tag.length >= 2
ValidTag(tag) == tag[Len(tag)] = "$" /\ Len(tag) >= 2

\* IndexOf returning the last occurrence instead of the first.
IndexOf_Last(s, t, from) ==
  LET hits == {p \in from .. (Len(s) - Len(t)) : Substring(s, p, p + Len(t)) = t}
  IN  IF hits = {} THEN -1 ELSE CHOOSE p \in hits : \A q \in hits : p >= q

\* s.indexOf(t, from): the first index >= from where t occurs, or -1.
IndexOf(s, t, from) ==
  LET hits == {p \in from .. (Len(s) - Len(t)) : Substring(s, p, p + Len(t)) = t}
  IN  IF hits = {} THEN -1 ELSE CHOOSE p \in hits : \A q \in hits : p <= q

\* ScanDollarQuoted with the closing tag searched from the opening `$`
\* instead of from the end of the opening tag.
ScanDollarQuoted_SearchFromOpen(s, k, cur) ==
  LET t        == DollarTag(s, k)
      cur1     == cur \o t.tag
      closeIdx == IndexOf(s, t.tag, k)
  IN  IF closeIdx # -1
        THEN Scan(closeIdx + Len(t.tag),
                  cur1 \o Substring(s, t.j, closeIdx + Len(t.tag)))
        ELSE Scan(Len(s), cur1 \o Substring(s, t.j, Len(s)))

\* ScanDollarQuoted with the rest of the text not consumed when the tag
\* has no closing occurrence.
ScanDollarQuoted_NoConsumeRest(s, k, cur) ==
  LET t        == DollarTag(s, k)
      cur1     == cur \o t.tag
      closeIdx == IndexOf(s, t.tag, t.j)
  IN  IF closeIdx # -1
        THEN Scan(closeIdx + Len(t.tag),
                  cur1 \o Substring(s, t.j, closeIdx + Len(t.tag)))
        ELSE Scan(t.j, cur1)

\* The dollar-quote handler once the tag is valid.
ScanDollarQuoted(s, k, cur) ==
  LET t        == DollarTag(s, k)
      cur1     == cur \o t.tag
      closeIdx == IndexOf(s, t.tag, t.j)
  IN  IF closeIdx # -1
        THEN Scan(closeIdx + Len(t.tag),
                  cur1 \o Substring(s, t.j, closeIdx + Len(t.tag)))
        ELSE Scan(Len(s), cur1 \o Substring(s, t.j, Len(s)))

\* ScanToEndOfLine with the comment's text skipped instead of kept.
RECURSIVE ScanToEndOfLine_Strip(_, _, _)
ScanToEndOfLine_Strip(s, k, cur) ==
  IF k < Len(s) /\ At(s, k) # "\n"
    THEN ScanToEndOfLine_Strip(s, k + 1, cur)
    ELSE Scan(k, cur)

\* ScanToEndOfLine with the comment ended by a single quote as well.
RECURSIVE ScanToEndOfLine_StopsAtQuote(_, _, _)
ScanToEndOfLine_StopsAtQuote(s, k, cur) ==
  IF k < Len(s) /\ At(s, k) # "\n" /\ At(s, k) # "'"
    THEN ScanToEndOfLine_StopsAtQuote(s, k + 1, cur \o <<At(s, k)>>)
    ELSE Scan(k, cur)

\* ScanToEndOfLine with the newline taken as part of the comment: the
\* comment runs to the end of the text.
RECURSIVE ScanToEndOfLine_ToEndOfText(_, _, _)
ScanToEndOfLine_ToEndOfText(s, k, cur) ==
  IF k < Len(s)
    THEN ScanToEndOfLine_ToEndOfText(s, k + 1, cur \o <<At(s, k)>>)
    ELSE Scan(k, cur)

\* Line comment (-- or #), after its opening: up to the newline or the end.
RECURSIVE ScanToEndOfLine(_, _, _)
ScanToEndOfLine(s, k, cur) ==
  IF k < Len(s) /\ At(s, k) # "\n"
    THEN ScanToEndOfLine(s, k + 1, cur \o <<At(s, k)>>)
    ELSE Scan(k, cur)

\* ScanNestedComment with the depth never raised by an inner opening.
RECURSIVE ScanNestedComment_NoDepth(_, _, _, _)
ScanNestedComment_NoDepth(s, k, cur, depth) ==
  IF ~(k < Len(s) /\ depth > 0) THEN Scan(k, cur)
  ELSE IF At(s, k) = "/" /\ At(s, k + 1) = "*"
    THEN ScanNestedComment_NoDepth(s, k + 2, cur \o <<"/", "*">>, depth)
  ELSE IF At(s, k) = "*" /\ At(s, k + 1) = "/"
    THEN ScanNestedComment_NoDepth(s, k + 2, cur \o <<"*", "/">>, depth - 1)
  ELSE ScanNestedComment_NoDepth(s, k + 1, cur \o <<At(s, k)>>, depth)

\* Block comment with nesting, after the opening, depth being the counter.
RECURSIVE ScanNestedComment(_, _, _, _)
ScanNestedComment(s, k, cur, depth) ==
  IF ~(k < Len(s) /\ depth > 0) THEN Scan(k, cur)
  ELSE IF At(s, k) = "/" /\ At(s, k + 1) = "*"
    THEN ScanNestedComment(s, k + 2, cur \o <<"/", "*">>, depth + 1)
  ELSE IF At(s, k) = "*" /\ At(s, k + 1) = "/"
    THEN ScanNestedComment(s, k + 2, cur \o <<"*", "/">>, depth - 1)
  ELSE ScanNestedComment(s, k + 1, cur \o <<At(s, k)>>, depth)

\* ScanPlainComment with the nesting counted as under postgresql.
ScanPlainComment_Nested(s, k, cur) == ScanNestedComment(s, k, cur, 1)

\* Block comment without nesting, after the opening.
RECURSIVE ScanPlainComment(_, _, _)
ScanPlainComment(s, k, cur) ==
  IF ~(k < Len(s)) THEN Scan(k, cur)
  ELSE IF At(s, k) = "*" /\ At(s, k + 1) = "/"
    THEN Scan(k + 2, cur \o <<"*", "/">>)
  ELSE ScanPlainComment(s, k + 1, cur \o <<At(s, k)>>)

\* The block-comment handler after the opening.
ScanBlockComment(s, config, k, cur) ==
  IF config.nestedBlockComments
    THEN ScanNestedComment(s, k, cur, 1)
    ELSE ScanPlainComment(s, k, cur)

(* ------------------------------ dispatch ------------------------------ *)

\* Dispatch with the backtick handler not gated by its flag.
Dispatch_BacktickUngated(s, config, k) ==
  LET char     == At(s, k)
      nextChar == At(s, k + 1)
  IN  IF char = "'" THEN "singleQuote"
      ELSE IF char = "\"" THEN "doubleQuote"
      ELSE IF char = BacktickChar THEN "backtick"
      ELSE IF config.bracketIdentifiers /\ char = "[" THEN "bracket"
      ELSE IF config.dollarQuotes /\ char = "$" /\ ValidTag(DollarTag(s, k).tag)
        THEN "dollarQuote"
      ELSE IF config.hashLineComment /\ char = "#" THEN "hashComment"
      ELSE IF char = "-" /\ nextChar = "-" THEN "lineComment"
      ELSE IF char = "/" /\ nextChar = "*" THEN "blockComment"
      ELSE IF char = ";" THEN "separator"
      ELSE "ordinary"

\* The handler the if-chain of one outer iteration runs at cursor k.
Dispatch(s, config, k) ==
  LET char     == At(s, k)
      nextChar == At(s, k + 1)
  IN  IF char = "'" THEN "singleQuote"
      ELSE IF char = "\"" THEN "doubleQuote"
      ELSE IF config.backtickIdentifiers /\ char = BacktickChar THEN "backtick"
      ELSE IF config.bracketIdentifiers /\ char = "[" THEN "bracket"
      ELSE IF config.dollarQuotes /\ char = "$" /\ ValidTag(DollarTag(s, k).tag)
        THEN "dollarQuote"
      ELSE IF config.hashLineComment /\ char = "#" THEN "hashComment"
      ELSE IF char = "-" /\ nextChar = "-" THEN "lineComment"
      ELSE IF char = "/" /\ nextChar = "*" THEN "blockComment"
      ELSE IF char = ";" THEN "separator"
      ELSE "ordinary"

(* ------------------------------ examples ------------------------------ *)

\* The texts of the checked cases, In... an input and Out... a statement
\* expected of it, each under the text it spells.

\* SELECT ';' AS x; SELECT 2;
InSemiInString ==
  <<"S","E","L","E","C","T"," ","'",";","'"," ","A","S"," ","x",";"," ","S","E","L","E",
    "C","T"," ","2",";">>

\* SELECT ';' AS x
OutSemiInString ==
  <<"S","E","L","E","C","T"," ","'",";","'"," ","A","S"," ","x">>

\* SELECT 2
OutSelect2 ==
  <<"S","E","L","E","C","T"," ","2">>

\* DO $$ BEGIN SELECT 1; END; $$; SELECT 2;
InDollarBlock ==
  <<"D","O"," ","$","$"," ","B","E","G","I","N"," ","S","E","L","E","C","T"," ","1",";",
    " ","E","N","D",";"," ","$","$",";"," ","S","E","L","E","C","T"," ","2",";">>

\* DO $$ BEGIN SELECT 1; END; $$
OutDollarBlock ==
  <<"D","O"," ","$","$"," ","B","E","G","I","N"," ","S","E","L","E","C","T"," ","1",";",
    " ","E","N","D",";"," ","$","$">>

\* SELECT 1 /* outer /* inner */ still... */; SELECT 2;
InNestedComment ==
  <<"S","E","L","E","C","T"," ","1"," ","/","*"," ","o","u","t","e","r"," ","/","*"," ",
    "i","n","n","e","r"," ","*","/"," ","s","t","i","l","l",".",".","."," ","*","/",";",
    " ","S","E","L","E","C","T"," ","2",";">>

\* SELECT 1 /* outer /* inner */ still... */
OutNestedComment ==
  <<"S","E","L","E","C","T"," ","1"," ","/","*"," ","o","u","t","e","r"," ","/","*"," ",
    "i","n","n","e","r"," ","*","/"," ","s","t","i","l","l",".",".","."," ","*","/">>

\* SELECT [col;name] FROM t;
InBracket ==
  <<"S","E","L","E","C","T"," ","[","c","o","l",";","n","a","m","e","]"," ","F","R","O",
    "M"," ","t",";">>

\* SELECT [col;name] FROM t
OutBracket ==
  <<"S","E","L","E","C","T"," ","[","c","o","l",";","n","a","m","e","]"," ","F","R","O",
    "M"," ","t">>

\* SELECT [a]];b]; SELECT 2
InDoubledBracket ==
  <<"S","E","L","E","C","T"," ","[","a","]","]",";","b","]",";"," ","S","E","L","E","C",
    "T"," ","2">>

\* SELECT [a]];b]
OutDoubledBracket ==
  <<"S","E","L","E","C","T"," ","[","a","]","]",";","b","]">>

\* ;; SELECT 1; ; ;
InEmptySegments ==
  <<";",";"," ","S","E","L","E","C","T"," ","1",";"," ",";"," ",";">>

\* SELECT 1
OutSelect1 ==
  <<"S","E","L","E","C","T"," ","1">>

\* SELECT 1
InNoSeparator ==
  <<"S","E","L","E","C","T"," ","1">>

\* SELECT 'abc
InUntermSingle ==
  <<"S","E","L","E","C","T"," ","'","a","b","c">>

\* SELECT 1; SELECT 'abc; SELECT 2; SELECT 3; (a trailing space)
InUntermSingleMore ==
  <<"S","E","L","E","C","T"," ","1",";"," ","S","E","L","E","C","T"," ","'","a","b","c",
    ";"," ","S","E","L","E","C","T"," ","2",";"," ","S","E","L","E","C","T"," ","3",";",
    " ">>

\* SELECT 1; SELECT "abc; SELECT 2; SELECT 3; (a trailing space)
InUntermDouble ==
  <<"S","E","L","E","C","T"," ","1",";"," ","S","E","L","E","C","T"," ","\"","a","b",
    "c",";"," ","S","E","L","E","C","T"," ","2",";"," ","S","E","L","E","C","T"," ","3",
    ";"," ">>

\* SELECT 1; SELECT [abc; SELECT 2; SELECT 3; (a trailing space)
InUntermBracket ==
  <<"S","E","L","E","C","T"," ","1",";"," ","S","E","L","E","C","T"," ","[","a","b","c",
    ";"," ","S","E","L","E","C","T"," ","2",";"," ","S","E","L","E","C","T"," ","3",";",
    " ">>

\* SELECT 1; SELECT $q$abc; SELECT 2; $x$ SELECT 3; (a trailing space)
InUntermDollar ==
  <<"S","E","L","E","C","T"," ","1",";"," ","S","E","L","E","C","T"," ","$","q","$","a",
    "b","c",";"," ","S","E","L","E","C","T"," ","2",";"," ","$","x","$"," ","S","E","L",
    "E","C","T"," ","3",";"," ">>

\* SELECT 1; SELECT /* abc; SELECT 2; SELECT 3; (a trailing space)
InUntermComment ==
  <<"S","E","L","E","C","T"," ","1",";"," ","S","E","L","E","C","T"," ","/","*"," ","a",
    "b","c",";"," ","S","E","L","E","C","T"," ","2",";"," ","S","E","L","E","C","T"," ",
    "3",";"," ">>

\* SELECT 'it\'s'; SELECT `a;b`;
InMysqlEscapes ==
  <<"S","E","L","E","C","T"," ","'","i","t","\\","'","s","'",";"," ","S","E","L","E",
    "C","T"," ",BacktickChar,"a",";","b",BacktickChar,";">>

\* SELECT 'it\'s'
OutMysqlString ==
  <<"S","E","L","E","C","T"," ","'","i","t","\\","'","s","'">>

\* SELECT `a;b`
OutMysqlBacktick ==
  <<"S","E","L","E","C","T"," ",BacktickChar,"a",";","b",BacktickChar>>

\* SELECT 1; SELECT `abc; SELECT 2; SELECT 3; (a trailing space)
InUntermBacktick ==
  <<"S","E","L","E","C","T"," ","1",";"," ","S","E","L","E","C","T"," ",BacktickChar,
    "a","b","c",";"," ","S","E","L","E","C","T"," ","2",";"," ","S","E","L","E","C","T",
    " ","3",";"," ">>

\* SELECT 'abc; SELECT 2; SELECT 3;
OutUntermSingle ==
  <<"S","E","L","E","C","T"," ","'","a","b","c",";"," ","S","E","L","E","C","T"," ","2",
    ";"," ","S","E","L","E","C","T"," ","3",";">>

\* SELECT "abc; SELECT 2; SELECT 3;
OutUntermDouble ==
  <<"S","E","L","E","C","T"," ","\"","a","b","c",";"," ","S","E","L","E","C","T"," ",
    "2",";"," ","S","E","L","E","C","T"," ","3",";">>

\* SELECT `abc; SELECT 2; SELECT 3;
OutUntermBacktick ==
  <<"S","E","L","E","C","T"," ",BacktickChar,"a","b","c",";"," ","S","E","L","E","C",
    "T"," ","2",";"," ","S","E","L","E","C","T"," ","3",";">>

\* SELECT [abc; SELECT 2; SELECT 3;
OutUntermBracket ==
  <<"S","E","L","E","C","T"," ","[","a","b","c",";"," ","S","E","L","E","C","T"," ","2",
    ";"," ","S","E","L","E","C","T"," ","3",";">>

\* SELECT $q$abc; SELECT 2; $x$ SELECT 3;
OutUntermDollar ==
  <<"S","E","L","E","C","T"," ","$","q","$","a","b","c",";"," ","S","E","L","E","C","T",
    " ","2",";"," ","$","x","$"," ","S","E","L","E","C","T"," ","3",";">>

\* SELECT /* abc; SELECT 2; SELECT 3;
OutUntermComment ==
  <<"S","E","L","E","C","T"," ","/","*"," ","a","b","c",";"," ","S","E","L","E","C","T",
    " ","2",";"," ","S","E","L","E","C","T"," ","3",";">>

\* SELECT 1 /* a /* b */ ; c */; SELECT 2
InNestedSemi ==
  <<"S","E","L","E","C","T"," ","1"," ","/","*"," ","a"," ","/","*"," ","b"," ","*","/",
    " ",";"," ","c"," ","*","/",";"," ","S","E","L","E","C","T"," ","2">>

\* SELECT 1 /* a /* b */ ; c */
OutNestedSemi ==
  <<"S","E","L","E","C","T"," ","1"," ","/","*"," ","a"," ","/","*"," ","b"," ","*","/",
    " ",";"," ","c"," ","*","/">>

\* SELECT 1; -- done
InTrailingComment ==
  <<"S","E","L","E","C","T"," ","1",";"," ","-","-"," ","d","o","n","e">>

\* -- done
OutTrailingComment ==
  <<"-","-"," ","d","o","n","e">>

\* SELECT 1 -- it's\n; SELECT 2
InQuoteInLineComment ==
  <<"S","E","L","E","C","T"," ","1"," ","-","-"," ","i","t","'","s","\n",";"," ","S",
    "E","L","E","C","T"," ","2">>

\* SELECT 1 -- it's
OutQuoteInLineComment ==
  <<"S","E","L","E","C","T"," ","1"," ","-","-"," ","i","t","'","s">>

\* SELECT 1 /* ' " ` */; SELECT 2
InQuotesInBlockComment ==
  <<"S","E","L","E","C","T"," ","1"," ","/","*"," ","'"," ","\""," ",BacktickChar," ",
    "*","/",";"," ","S","E","L","E","C","T"," ","2">>

\* SELECT 1 /* ' " ` */
OutQuotesInBlockComment ==
  <<"S","E","L","E","C","T"," ","1"," ","/","*"," ","'"," ","\""," ",BacktickChar," ",
    "*","/">>

\* SELECT 1 # it's\n; SELECT 2
InQuoteInHashComment ==
  <<"S","E","L","E","C","T"," ","1"," ","#"," ","i","t","'","s","\n",";"," ","S","E",
    "L","E","C","T"," ","2">>

\* SELECT 1 # it's
OutQuoteInHashComment ==
  <<"S","E","L","E","C","T"," ","1"," ","#"," ","i","t","'","s">>

\* SELECT '-- /* # $$'; SELECT 2
InCommentsInString ==
  <<"S","E","L","E","C","T"," ","'","-","-"," ","/","*"," ","#"," ","$","$","'",";"," ",
    "S","E","L","E","C","T"," ","2">>

\* SELECT '-- /* # $$'
OutCommentsInString ==
  <<"S","E","L","E","C","T"," ","'","-","-"," ","/","*"," ","#"," ","$","$","'">>

\* /* a /* b */ ; c */ ; SELECT 2
InBlockNoNest ==
  <<"/","*"," ","a"," ","/","*"," ","b"," ","*","/"," ",";"," ","c"," ","*","/"," ",";",
    " ","S","E","L","E","C","T"," ","2">>

\* /* a /* b */
OutBlockInner ==
  <<"/","*"," ","a"," ","/","*"," ","b"," ","*","/">>

\* c */
OutBlockTail ==
  <<"c"," ","*","/">>

\* /* a /* b */ ; c */
OutBlockOuter ==
  <<"/","*"," ","a"," ","/","*"," ","b"," ","*","/"," ",";"," ","c"," ","*","/">>

\* SELECT 'a'';b'; SELECT 2
InDoubledSingle ==
  <<"S","E","L","E","C","T"," ","'","a","'","'",";","b","'",";"," ","S","E","L","E","C",
    "T"," ","2">>

\* SELECT 'a'';b'
OutDoubledSingle ==
  <<"S","E","L","E","C","T"," ","'","a","'","'",";","b","'">>

\* SELECT "a"";b"; SELECT 2
InDoubledDouble ==
  <<"S","E","L","E","C","T"," ","\"","a","\"","\"",";","b","\"",";"," ","S","E","L","E",
    "C","T"," ","2">>

\* SELECT "a"";b"
OutDoubledDouble ==
  <<"S","E","L","E","C","T"," ","\"","a","\"","\"",";","b","\"">>

\* SELECT 'a\'; SELECT 2
InBackslashQuote ==
  <<"S","E","L","E","C","T"," ","'","a","\\","'",";"," ","S","E","L","E","C","T"," ","2">>

\* SELECT 'a\'
OutBackslashQuote ==
  <<"S","E","L","E","C","T"," ","'","a","\\","'">>

\* SELECT `a;b`
InBacktickSemi ==
  <<"S","E","L","E","C","T"," ",BacktickChar,"a",";","b",BacktickChar>>

\* SELECT `a
OutBacktickHead ==
  <<"S","E","L","E","C","T"," ",BacktickChar,"a">>

\* b`
OutBacktickTail ==
  <<"b",BacktickChar>>

\* SELECT 1 # x; y
InHashSemi ==
  <<"S","E","L","E","C","T"," ","1"," ","#"," ","x",";"," ","y">>

\* SELECT 1 # x
OutHashHead ==
  <<"S","E","L","E","C","T"," ","1"," ","#"," ","x">>

\* y
OutY ==
  <<"y">>

\* SELECT [a;b]
InBracketSemi ==
  <<"S","E","L","E","C","T"," ","[","a",";","b","]">>

\* SELECT [a
OutBracketHead ==
  <<"S","E","L","E","C","T"," ","[","a">>

\* b]
OutBracketTail ==
  <<"b","]">>

\* SELECT $$a;b$$
InDollarSemi ==
  <<"S","E","L","E","C","T"," ","$","$","a",";","b","$","$">>

\* SELECT $$a
OutDollarHead ==
  <<"S","E","L","E","C","T"," ","$","$","a">>

\* b$$
OutDollarTail ==
  <<"b","$","$">>

\* SELECT $1; SELECT $2
InDollarParams ==
  <<"S","E","L","E","C","T"," ","$","1",";"," ","S","E","L","E","C","T"," ","$","2">>

\* SELECT $1
OutDollarParam1 ==
  <<"S","E","L","E","C","T"," ","$","1">>

\* SELECT $2
OutDollarParam2 ==
  <<"S","E","L","E","C","T"," ","$","2">>

\* SELECT $
InLoneDollar ==
  <<"S","E","L","E","C","T"," ","$">>

\* $foo$a;$bar$;b$foo$;c
InTagMismatch ==
  <<"$","f","o","o","$","a",";","$","b","a","r","$",";","b","$","f","o","o","$",";","c">>

\* $foo$a;$bar$;b$foo$
OutTagMismatch ==
  <<"$","f","o","o","$","a",";","$","b","a","r","$",";","b","$","f","o","o","$">>

\* c
OutC ==
  <<"c">>

\* $foo$a;$bar$;b
InTagUnclosed ==
  <<"$","f","o","o","$","a",";","$","b","a","r","$",";","b">>

\* SELECT 1 -- a;b\n; SELECT 2
InLineCommentSemi ==
  <<"S","E","L","E","C","T"," ","1"," ","-","-"," ","a",";","b","\n",";"," ","S","E",
    "L","E","C","T"," ","2">>

\* SELECT 1 -- a;b
OutLineCommentSemi ==
  <<"S","E","L","E","C","T"," ","1"," ","-","-"," ","a",";","b">>

\* SELECT 1 # a;b\n; SELECT 2
InHashCommentSemi ==
  <<"S","E","L","E","C","T"," ","1"," ","#"," ","a",";","b","\n",";"," ","S","E","L",
    "E","C","T"," ","2">>

\* SELECT 1 # a;b
OutHashCommentSemi ==
  <<"S","E","L","E","C","T"," ","1"," ","#"," ","a",";","b">>

\* 'a\\'; SELECT 2
InDoubleBackslash ==
  <<"'","a","\\","\\","'",";"," ","S","E","L","E","C","T"," ","2">>

\* 'a\\'
OutDoubleBackslash ==
  <<"'","a","\\","\\","'">>

Examples ==
  {InSemiInString, InDollarBlock, InNestedComment,
   InBracket, InDoubledBracket, InEmptySegments,
   InNoSeparator, InUntermSingle, InUntermSingleMore,
   InUntermDouble, InUntermBracket, InUntermDollar,
   InUntermComment, InMysqlEscapes, InUntermBacktick, InNestedSemi,
   InTrailingComment, InQuoteInLineComment, InQuotesInBlockComment,
   InQuoteInHashComment, InCommentsInString, InBlockNoNest,
   InDoubledSingle, InDoubledDouble, InBackslashQuote,
   InBacktickSemi, InHashSemi, InBracketSemi,
   InDollarSemi, InDollarParams, InLoneDollar, InTagMismatch,
   InTagUnclosed, InLineCommentSemi, InHashCommentSemi,
   InDoubleBackslash}

(* ------------------------------- inputs ------------------------------- *)

\* The characters of the enumerated inputs: every delimiter the scanner
\* looks at, the two whitespace characters and a tag character.
Alphabet ==
  {"'", "\"", BacktickChar, "[", "]", "$", "#", "-", "/", "*", ";", "\\", "\n", " ", "a"}

\* Every text over Alphabet of at most MaxLen characters.
Enumerated == UNION {[1 .. n -> Alphabet] : n \in 0 .. MaxLen}

\* The alphabets of the longer enumerated inputs, one per kind of region,
\* and one that mixes a string delimiter with a line comment.
FocusAlphabets ==
  {{"'", "\\", ";"}, {"\"", "a", ";"}, {BacktickChar, "a", ";"}, {"[", "]", ";"},
   {"$", "a", ";"}, {"/", "*", ";"}, {"-", "\n", ";"}, {"#", "\n", ";"},
   {" ", "a", ";"}, {"'", "-", "\n", ";"}}

\* Every text over one of FocusAlphabets of at most MaxFocusLen characters.
Focused ==
  UNION {UNION {[1 .. n -> A] : n \in 0 .. MaxFocusLen} : A \in FocusAlphabets}

Inputs == Examples \cup Enumerated \cup Focused

(* ------------------------------- state -------------------------------- *)

VARIABLES
  sql,         \* the text being split
  dbType,      \* the dialect of the call
  statements,  \* the completed statements
  current,     \* the buffer of the statement under construction
  i,           \* the cursor
  pc,          \* "scan" inside the outer loop, "done" after the return
  cut,         \* history: the raw buffer at each statement separator
  regionEnd,   \* history: the length of the buffer when a region handler
               \* last wrote to it (0 when none has since the last cut)
  table,       \* the module-level configuration object
  other,       \* a second call, made through a splitter (NoCall when none)
  splitters,   \* the splitters created so far, by the dialect asked for
  store,       \* the savedQueries list kept by the storage
  request,     \* the IPC handler invoked last, with the id it was given
  response,    \* what that handler returned
  calls        \* history: the calls that invocation made to its collaborators

\* The state of the IPC handlers.
ipcVars == <<store, request, response, calls>>

vars ==
  <<sql, dbType, statements, current, i, pc, cut, regionEnd, table, other, splitters,
    ipcVars>>

\* No handler has been invoked.
NoRequest == [channel |-> "none", id |-> "none"]

NoResponse == [success |-> TRUE]

\* const config = SQL_PARSER_CONFIGS[dbType]
config == table[dbType]

\* The local state of a call splitStatements(t, d) at its first statement.
NewCall(t, d) ==
  [sql |-> t, dbType |-> d, statements |-> <<>>, current |-> <<>>, i |-> 0,
   pc |-> "scan", via |-> "direct"]

\* No second call.
NoCall == [NewCall(<<>>, "none") EXCEPT !.pc = "none", !.via = "none"]

\* A call splitStatements(t, d) for a text of the set texts, alone.
Start(texts) ==
  /\ sql \in texts
  /\ dbType \in DatabaseType
  /\ statements = <<>>
  /\ current = <<>>
  /\ i = 0
  /\ pc = "scan"
  /\ cut = <<>>
  /\ regionEnd = 0
  /\ table = SQL_PARSER_CONFIGS
  /\ other = NoCall
  /\ splitters = <<>>
  /\ store = <<>>
  /\ request = NoRequest
  /\ response = NoResponse
  /\ calls = <<>>

Init == Start(Inputs)

\* Finish without the push of the last statement.
Finish_NoPush ==
  /\ pc = "scan"
  /\ ~(i < Len(sql))
  /\ pc' = "done"
  /\ UNCHANGED <<sql, dbType, statements, current, i, cut, regionEnd, table, other, splitters, ipcVars>>

\* The outer loop runs the handler h.
Runs(h) == pc = "scan" /\ i < Len(sql) /\ Dispatch(sql, config, i) = h

\* A handler that consumes a region: the buffer and the cursor it leaves.
Region(r) ==
  /\ current' = r.current
  /\ i' = r.i
  /\ regionEnd' = Len(r.current)
  /\ UNCHANGED <<sql, dbType, statements, pc, cut, table, other, splitters, ipcVars>>

SingleQuote ==
  /\ Runs("singleQuote")
  /\ Region(ScanSingleQuoted(sql, config, i + 1, current \o <<At(sql, i)>>))

DoubleQuote ==
  /\ Runs("doubleQuote")
  /\ Region(ScanDoubleQuoted(sql, i + 1, current \o <<At(sql, i)>>))

Backtick ==
  /\ Runs("backtick")
  /\ Region(ScanBacktick(sql, i + 1, current \o <<At(sql, i)>>))

Bracket ==
  /\ Runs("bracket")
  /\ Region(ScanBracket(sql, i + 1, current \o <<At(sql, i)>>))

DollarQuote ==
  /\ Runs("dollarQuote")
  /\ Region(ScanDollarQuoted(sql, i, current))

HashComment ==
  /\ Runs("hashComment")
  /\ Region(ScanToEndOfLine(sql, i + 1, current \o <<"#">>))

LineComment ==
  /\ Runs("lineComment")
  /\ Region(ScanToEndOfLine(sql, i + 2, current \o <<"-", "-">>))

BlockComment ==
  /\ Runs("blockComment")
  /\ Region(ScanBlockComment(sql, config, i + 2, current \o <<"/", "*">>))

\* Push without the test for an empty statement.
Push_Always(stmts, stmt) == Append(stmts, stmt)

\* Push with the statement put in front of the list.
Push_Prepend(stmts, stmt) == IF stmt # <<>> THEN <<stmt>> \o stmts ELSE stmts

\* statements.push(stmt) when stmt is not empty
Push(stmts, stmt) == IF stmt # <<>> THEN Append(stmts, stmt) ELSE stmts

\* Separator with the `;` taken into the statement it ends.
Separator_KeepsSemicolon ==
  /\ Runs("separator")
  /\ statements' = Push(statements, Trim(current \o <<";">>))
  /\ current' = <<>>
  /\ i' = i + 1
  /\ cut' = Append(cut, current)
  /\ regionEnd' = 0
  /\ UNCHANGED <<sql, dbType, pc, table, other, splitters, ipcVars>>

Separator ==
  /\ Runs("separator")
  /\ statements' = Push(statements, Trim(current))
  /\ current' = <<>>
  /\ i' = i + 1
  /\ cut' = Append(cut, current)
  /\ regionEnd' = 0
  /\ UNCHANGED <<sql, dbType, pc, table, other, splitters, ipcVars>>

\* Ordinary with the cursor left where it is.
Ordinary_NoAdvance ==
  /\ Runs("ordinary")
  /\ current' = current \o <<At(sql, i)>>
  /\ UNCHANGED <<sql, dbType, statements, i, pc, cut, regionEnd, table, other, splitters, ipcVars>>

Ordinary ==
  /\ Runs("ordinary")
  /\ current' = current \o <<At(sql, i)>>
  /\ i' = i + 1
  /\ UNCHANGED <<sql, dbType, statements, pc, cut, regionEnd, table, other, splitters, ipcVars>>

\* The loop has ended: the last statement, and the return.
Finish ==
  /\ pc = "scan"
  /\ ~(i < Len(sql))
  /\ statements' = Push(statements, Trim(current))
  /\ pc' = "done"
  /\ UNCHANGED <<sql, dbType, current, i, cut, regionEnd, table, other, splitters, ipcVars>>

Next ==
  \/ SingleQuote
  \/ DoubleQuote
  \/ Backtick
  \/ Bracket
  \/ DollarQuote
  \/ HashComment
  \/ LineComment
  \/ BlockComment
  \/ Separator
  \/ Ordinary
  \/ Finish

Spec == Init /\ [][Next]_vars

\* The call is sequential code that runs until it returns.
FairSpec == Spec /\ WF_vars(Next)

(* --------------------- calls side by side, splitters ------------------ *)

\* One iteration of the outer loop of the call c, or the end of the loop,
\* as a function of the call's local state and the configuration table.
StepCall(c, tbl) ==
  LET cfg    == tbl[c.dbType]
      h      == Dispatch(c.sql, cfg, c.i)
      char   == At(c.sql, c.i)
      To(r)  == [c EXCEPT !.current = r.current, !.i = r.i]
  IN  IF ~(c.i < Len(c.sql))
        THEN [c EXCEPT !.statements = Push(c.statements, Trim(c.current)),
                       !.pc = "done"]
      ELSE CASE h = "singleQuote" ->
                  To(ScanSingleQuoted(c.sql, cfg, c.i + 1, c.current \o <<char>>))
             [] h = "doubleQuote" ->
                  To(ScanDoubleQuoted(c.sql, c.i + 1, c.current \o <<char>>))
             [] h = "backtick" ->
                  To(ScanBacktick(c.sql, c.i + 1, c.current \o <<char>>))
             [] h = "bracket" ->
                  To(ScanBracket(c.sql, c.i + 1, c.current \o <<char>>))
             [] h = "dollarQuote" ->
                  To(ScanDollarQuoted(c.sql, c.i, c.current))
             [] h = "hashComment" ->
                  To(ScanToEndOfLine(c.sql, c.i + 1, c.current \o <<"#">>))
             [] h = "lineComment" ->
                  To(ScanToEndOfLine(c.sql, c.i + 2, c.current \o <<"-", "-">>))
             [] h = "blockComment" ->
                  To(ScanBlockComment(c.sql, cfg, c.i + 2, c.current \o <<"/", "*">>))
             [] h = "separator" ->
                  [c EXCEPT !.statements = Push(c.statements, Trim(c.current)),
                            !.current = <<>>, !.i = c.i + 1]
             [] OTHER ->
                  [c EXCEPT !.current = c.current \o <<char>>, !.i = c.i + 1]

\* The call c run to its return.
RECURSIVE RunCall(_, _)
RunCall(c, tbl) == IF c.pc = "done" THEN c ELSE RunCall(StepCall(c, tbl), tbl)

\* splitStatements(t, d) run alone: the list it returns.
SplitStatements(t, d) == RunCall(NewCall(t, d), SQL_PARSER_CONFIGS).statements

\* createStatementSplitter returning a function bound to one fixed dialect.
createStatementSplitter_FixedDialect(d) == [dbType |-> "postgresql"]

\* createStatementSplitter(dbType): the function returned, i.e. the dbType
\* its body refers to.
createStatementSplitter(d) == [dbType |-> d]

\* (sql) => splitStatements(sql, dbType): the call the function sp makes.
CallClosure(sp, t) == NewCall(t, sp.dbType)

\* ';';";"
ConcQuotes == <<"'", ";", "'", ";", "\"", ";", "\"">>

\* `;`[;]a
ConcIdents == <<BacktickChar, ";", BacktickChar, "[", ";", "]", "a">>

\* $$;$$;#;
ConcDollarHash == <<"$", "$", ";", "$", "$", ";", "#", ";">>

\* --;\n/*;*/;a
ConcComments == <<"-", "-", ";", "\n", "/", "*", ";", "*", "/", ";", "a">>

\* The texts of the calls made side by side.
ConcInputs == {ConcQuotes, ConcIdents, ConcDollarHash, ConcComments}

ConcInit == Start(ConcInputs)

\* The state of the first call, which the second call and the splitters
\* do not touch.
firstCall == <<sql, dbType, statements, current, i, pc, cut, regionEnd>>

\* createStatementSplitter(d), for a dialect without a splitter yet.
CreateSplitter ==
  /\ \E d \in DatabaseType \ DOMAIN splitters :
       splitters' = splitters @@ (d :> createStatementSplitter(d))
  /\ UNCHANGED <<firstCall, table, other, ipcVars>>

\* The splitter created for a dialect is called with a text.
CallSplitter ==
  /\ other.pc = "none"
  /\ \E d \in DOMAIN splitters, t \in ConcInputs :
       other' = [CallClosure(splitters[d], t) EXCEPT !.via = d]
  /\ UNCHANGED <<firstCall, table, splitters, ipcVars>>

\* OtherStep with the buffer a variable that both calls use.
OtherStep_SharedBuffer ==
  /\ other.pc = "scan"
  /\ LET c == StepCall([other EXCEPT !.current = current], table)
     IN  /\ other' = c
         /\ current' = c.current
  /\ UNCHANGED <<sql, dbType, statements, i, pc, cut, regionEnd, table, splitters, ipcVars>>

\* One step of the second call.
OtherStep ==
  /\ other.pc = "scan"
  /\ other' = StepCall(other, table)
  /\ UNCHANGED <<firstCall, table, splitters, ipcVars>>

ConcNext ==
  \/ Next
  \/ CreateSplitter
  \/ CallSplitter
  \/ OtherStep

\* Two calls whose steps interleave, the second one made through a
\* splitter.
ConcSpec == ConcInit /\ [][ConcNext]_vars

(* ---------------------------- IPC handlers ---------------------------- *)

\* The most queries the stored list holds.
MaxQueries == 2

\* The highest usageCount of a query.
MaxUsage == 1

\* The splitter's variables, which no IPC handler reads or writes.
splitterVars ==
  <<sql, dbType, statements, current, i, pc, cut, regionEnd, table, other, splitters>>

\* No splitStatements call is in progress and none was made.
Idle ==
  /\ sql = <<>>
  /\ dbType = "postgresql"
  /\ statements = <<>>
  /\ current = <<>>
  /\ i = 0
  /\ pc = "none"
  /\ cut = <<>>
  /\ regionEnd = 0
  /\ table = SQL_PARSER_CONFIGS
  /\ other = NoCall
  /\ splitters = <<>>

\* A call to a collaborator returns a value or throws one.
Returns(v) == [threw |-> FALSE, value |-> v]

Throws(e) == [threw |-> TRUE, err |-> e]

\* One entry of the history of calls: the function, the statements it was
\* given (executeTransaction only) and what it did.
Call(fn, args, out) == [fn |-> fn, args |-> args, out |-> out]

\* boom
MsgBoom ==
  <<"b","o","o","m">>

\* denied
MsgDenied ==
  <<"d","e","n","i","e","d">>

\* The values thrown: an Error with a message, or a string.
Thrown ==
  {[kind |-> "Error", message |-> MsgBoom], [kind |-> "string", value |-> MsgDenied]}

\* String(err) for a thrown string.
StringOf(err) == err.value

\* err instanceof Error ? err.message : String(err)
ErrorMessage(err) == IF err.kind = "Error" THEN err.message ELSE StringOf(err)

\* success(data)
success(data) == [success |-> TRUE, data |-> data]

\* error(message)
error(message) == [success |-> FALSE, error |-> message]

\* The function wrapHandler(handler) returns, for an invocation in which
\* the awaited handler has the outcome o.
wrapHandler(o) == IF o.threw THEN error(ErrorMessage(o.err)) ELSE success(o.value)

\* The function wrapSyncHandler(handler) returns, likewise.
wrapSyncHandler(o) == IF o.threw THEN error(ErrorMessage(o.err)) ELSE success(o.value)

(* ------------------------- saved-queries handlers --------------------- *)

\* Saved query not found
SavedQueryNotFound ==
  <<"S","a","v","e","d"," ","q","u","e","r","y"," ","n","o","t"," ","f","o","u","n","d">>

\* The ids of the queries.
QueryIds == {"q1", "q2"}

\* The values of Date.now().
Times == {1}

\* A query as the renderer sends it to saved-queries:add: stamped when it
\* was made and not used yet (0 stands for a lastUsedAt that is not set).
NewQueries == [id : QueryIds, usageCount : 0 .. MaxUsage, lastUsedAt : {0}, updatedAt : Times]

\* The updates of saved-queries:update, a Partial<SavedQuery>: has... says
\* whether the field is present.
Updates ==
  [hasId : BOOLEAN, id : QueryIds, hasUsageCount : BOOLEAN, usageCount : 0 .. MaxUsage]

\* findIndex returning the last match.
FindIndex_Last(list, id) ==
  LET hits == {k \in 1 .. Len(list) : list[k].id = id}
  IN  IF hits = {} THEN -1 ELSE (CHOOSE k \in hits : \A m \in hits : k >= m) - 1

\* savedQueries.findIndex((q) => q.id === id), 0-based, -1 when none.
FindIndex(list, id) ==
  LET hits == {k \in 1 .. Len(list) : list[k].id = id}
  IN  IF hits = {} THEN -1 ELSE (CHOOSE k \in hits : \A m \in hits : k <= m) - 1

\* { ...q, ...updates, updatedAt: Date.now() }
Merge(q, updates, now) ==
  [id         |-> IF updates.hasId THEN updates.id ELSE q.id,
   usageCount |-> IF updates.hasUsageCount THEN updates.usageCount ELSE q.usageCount,
   lastUsedAt |-> q.lastUsedAt,
   updatedAt  |-> now]

\* The handler of channel ch ends as it does when store.get throws: the
\* catch block answers with the message.
GetThrows(ch, id) ==
  \E e \in Thrown :
    /\ request' = [channel |-> ch, id |-> id]
    /\ response' = error(ErrorMessage(e))
    /\ calls' = <<Call("store.get", <<>>, Throws(e))>>
    /\ store' = store

\* The handler read the list and wrote list back: store.get, store.set.
GetAndSet(list) ==
  calls' = <<Call("store.get", <<>>, Returns(store)), Call("store.set", <<>>, Returns(list))>>

\* saved-queries:list
List ==
  /\ \/ /\ request' = [channel |-> "saved-queries:list", id |-> "none"]
        /\ response' = success(store)
        /\ calls' = <<Call("store.get", <<>>, Returns(store))>>
        /\ store' = store
     \/ GetThrows("saved-queries:list", "none")
  /\ UNCHANGED splitterVars

\* saved-queries:add
Add ==
  /\ Len(store) < MaxQueries
  /\ \E query \in NewQueries :
       \/ /\ request' = [channel |-> "saved-queries:add", id |-> query.id]
          /\ store' = Append(store, query)
          /\ response' = success(query)
          /\ GetAndSet(Append(store, query))
       \/ GetThrows("saved-queries:add", query.id)
  /\ UNCHANGED splitterVars

\* saved-queries:update
Update ==
  /\ \E id \in QueryIds :
       \/ /\ request' = [channel |-> "saved-queries:update", id |-> id]
          /\ LET index == FindIndex(store, id)
             IN  IF index = -1
                   THEN /\ response' = error(SavedQueryNotFound)
                        /\ store' = store
                        /\ calls' = <<Call("store.get", <<>>, Returns(store))>>
                   ELSE \E updates \in Updates, now \in Times :
                          LET merged == Merge(store[index + 1], updates, now)
                              list   == [store EXCEPT ![index + 1] = merged]
                          IN  /\ store' = list
                              /\ response' = success(merged)
                              /\ GetAndSet(list)
       \/ GetThrows("saved-queries:update", id)
  /\ UNCHANGED splitterVars

\* saved-queries:delete
Delete ==
  /\ \E id \in QueryIds :
       \/ /\ request' = [channel |-> "saved-queries:delete", id |-> id]
          /\ LET filtered == SelectSeq(store, LAMBDA q : q.id # id)
             IN  /\ store' = filtered
                 /\ GetAndSet(filtered)
          /\ response' = [success |-> TRUE]
       \/ GetThrows("saved-queries:delete", id)
  /\ UNCHANGED splitterVars

\* saved-queries:increment-usage
IncrementUsage ==
  /\ \E id \in QueryIds :
       \/ /\ request' = [channel |-> "saved-queries:increment-usage", id |-> id]
          /\ LET index == FindIndex(store, id)
             IN  IF index = -1
                   THEN /\ response' = error(SavedQueryNotFound)
                        /\ store' = store
                        /\ calls' = <<Call("store.get", <<>>, Returns(store))>>
                   ELSE \E now \in Times :
                          LET q      == store[index + 1]
                              raised == [q EXCEPT !.usageCount = q.usageCount + 1,
                                                  !.lastUsedAt = now]
                              list   == [store EXCEPT ![index + 1] = raised]
                          IN  /\ q.usageCount < MaxUsage
                              /\ store' = list
                              /\ response' = success(raised)
                              /\ GetAndSet(list)
       \/ GetThrows("saved-queries:increment-usage", id)
  /\ UNCHANGED splitterVars

\* The storage starts with no saved query.
SavedInit ==
  /\ Idle
  /\ store = <<>>
  /\ request = NoRequest
  /\ response = NoResponse
  /\ calls = <<>>

SavedNext ==
  \/ List
  \/ Add
  \/ Update
  \/ Delete
  \/ IncrementUsage

\* The saved-queries handlers, invoked one after the other in any order.
SavedSpec == SavedInit /\ [][SavedNext]_vars

(* ------------------------------ DDL handlers -------------------------- *)

\* The longest enumerated text of buildCreateTable.
MaxSqlLen == 4

\* The most errors of a validation.
MaxErrors == 2

\* The most queries of buildAlterTable.
MaxAlterQueries == 2

\* no name
ErrNoName ==
  <<"n","o"," ","n","a","m","e">>

\* no columns
ErrNoColumns ==
  <<"n","o"," ","c","o","l","u","m","n","s">>

\* CREATE t;\n\nCOMMENT t;\n\nINDEX t;
DdlCreateBlock ==
  <<"C","R","E","A","T","E"," ","t",";","\n","\n","C","O","M","M","E","N","T"," ","t",
    ";","\n","\n","I","N","D","E","X"," ","t",";">>

\* a; \n\n\nb;
DdlSpacedBlock ==
  <<"a",";"," ","\n","\n","\n","b",";">>

\* DROP t
DdlSingle ==
  <<"D","R","O","P"," ","t">>

\* CREATE t;
StmtCreate ==
  <<"C","R","E","A","T","E"," ","t",";">>

\* COMMENT t;
StmtComment ==
  <<"C","O","M","M","E","N","T"," ","t",";">>

\* INDEX t;
StmtIndex ==
  <<"I","N","D","E","X"," ","t",";">>

\* The texts buildCreateTable returns.
DdlAlphabet == {"a", ";", "\n"}

DdlTexts ==
  UNION {[1 .. n -> DdlAlphabet] : n \in 0 .. MaxSqlLen}
    \cup {DdlCreateBlock, DdlSpacedBlock, DdlSingle}

\* What validateTableDefinition returns.
Validations ==
  {[valid |-> TRUE, errors |-> <<>>]}
    \cup {[valid |-> FALSE, errors |-> es] :
            es \in UNION {[1 .. n -> {ErrNoName, ErrNoColumns}] : n \in 0 .. MaxErrors}}

\* What buildAlterTable returns: queries with their sql and params.
AlterQueries ==
  UNION {[1 .. n -> {[sql |-> <<"a">>, params |-> <<>>],
                     [sql |-> <<"b">>, params |-> <<"p">>]}] : n \in 0 .. MaxAlterQueries}

\* What a collaborator that produces one text does.
TextOutcomes == {Returns(DdlSingle)} \cup {Throws(e) : e \in Thrown}

\* What adapter.executeTransaction does.
TransactionOutcomes == {Returns(Undefined)} \cup {Throws(e) : e \in Thrown}

\* list.join(sep)
RECURSIVE Join(_, _)
Join(list, sep) ==
  IF list = <<>> THEN <<>>
  ELSE IF Len(list) = 1 THEN Head(list)
  ELSE Head(list) \o sep \o Join(Tail(list), sep)

\* The end of the whitespace that follows position p of t (p when none).
WhitespaceEnd(t, p) ==
  CHOOSE q \in p .. Len(t) :
    /\ \A k \in (p + 1) .. q : IsWhitespace(t[k])
    /\ q = Len(t) \/ ~IsWhitespace(t[q + 1])

\* The end of the match of /;\s*\n\n/ that starts at position p of t, 0
\* when there is none: \s* is greedy, so it is the last \n\n of the
\* whitespace after the `;`.
MatchEnd(t, p) ==
  IF t[p] # ";" THEN 0
  ELSE LET ends == {e \in (p + 2) .. WhitespaceEnd(t, p) : t[e - 1] = "\n" /\ t[e] = "\n"}
       IN  IF ends = {} THEN 0 ELSE CHOOSE e \in ends : \A f \in ends : e >= f

\* The pieces of t from position start on, with the search at position p.
RECURSIVE SplitFrom(_, _, _)
SplitFrom(t, start, p) ==
  IF p > Len(t) THEN <<SubSeq(t, start, Len(t))>>
  ELSE IF MatchEnd(t, p) # 0
    THEN <<SubSeq(t, start, p - 1)>> \o SplitFrom(t, MatchEnd(t, p) + 1, MatchEnd(t, p) + 1)
  ELSE SplitFrom(t, start, p + 1)

\* sql.split(/;\s*\n\n/)
RegexSplit(t) == SplitFrom(t, 1, 1)

\* stmt.trim().endsWith(';')
EndsWithSemicolon(t) == t # <<>> /\ t[Len(t)] = ";"

\* The stmtParams of db:create-table for the text t.
StmtParams(t) ==
  LET statements1 == SelectSeq(RegexSplit(t), LAMBDA x : Trim(x) # <<>>)
      statements2 == SelectSeq(statements1, LAMBDA x : Trim(x) # <<>>)
  IN  [k \in 1 .. Len(statements2) |->
         [sql    |-> IF EndsWithSemicolon(Trim(statements2[k]))
                       THEN statements2[k]
                       ELSE statements2[k] \o <<";">>,
          params |-> <<>>]]

\* The invocation of the channel ch ends with the response r after the
\* calls cs; the DDL handlers keep no state of their own.
Answers(ch, r, cs) ==
  /\ request' = [channel |-> ch, id |-> "none"]
  /\ response' = r
  /\ calls' = cs
  /\ store' = store

\* getAdapter(config)
GetAdapter == Call("getAdapter", <<>>, Returns("adapter"))

\* db:create-table once the definition has passed: the try block.
CreateTableTry(validated) ==
  \E built \in {Returns([sql |-> t]) : t \in DdlTexts} \cup {Throws(e) : e \in Thrown} :
    LET build == Call("buildCreateTable", <<>>, built)
    IN  IF built.threw
          THEN Answers("db:create-table", error(ErrorMessage(built.err)),
                       <<validated, GetAdapter, build>>)
          ELSE \E done \in TransactionOutcomes :
                 LET stmtParams == StmtParams(built.value.sql)
                     result     == [success |-> TRUE, executedSql |-> <<built.value.sql>>,
                                    errors |-> <<>>]
                     execute    == Call("executeTransaction", stmtParams, done)
                 IN  Answers("db:create-table",
                             IF done.threw THEN error(ErrorMessage(done.err))
                                           ELSE success(result),
                             <<validated, GetAdapter, build, execute>>)

\* db:create-table without the return on an invalid definition.
CreateTable_NoValidation ==
  /\ \E validation \in Validations :
       CreateTableTry(Call("validateTableDefinition", <<>>, Returns(validation)))
  /\ UNCHANGED splitterVars

\* db:create-table
CreateTable ==
  /\ \E validation \in Validations :
       LET validated == Call("validateTableDefinition", <<>>, Returns(validation))
       IN  IF ~validation.valid
             THEN Answers("db:create-table",
                          [success |-> FALSE, error |-> Join(validation.errors, <<";", " ">>)],
                          <<validated>>)
             ELSE CreateTableTry(validated)
  /\ UNCHANGED splitterVars

\* db:alter-table
AlterTable ==
  /\ \E built \in {Returns(queries) : queries \in AlterQueries} \cup {Throws(e) : e \in Thrown} :
       LET build == Call("buildAlterTable", <<>>, built)
       IN  IF built.threw
             THEN Answers("db:alter-table",
                          success([success |-> FALSE, executedSql |-> <<>>,
                                   errors |-> <<ErrorMessage(built.err)>>]),
                          <<GetAdapter, build>>)
             ELSE \E done \in TransactionOutcomes :
                    LET queries     == built.value
                        statements1 == [k \in 1 .. Len(queries) |->
                                          [sql |-> queries[k].sql, params |-> <<>>]]
                        executedSql == [k \in 1 .. Len(queries) |-> queries[k].sql]
                        execute     == Call("executeTransaction", statements1, done)
                    IN  Answers("db:alter-table",
                                IF done.threw
                                  THEN success([success |-> FALSE, executedSql |-> executedSql,
                                                errors |-> <<ErrorMessage(done.err)>>])
                                  ELSE success([success |-> TRUE, executedSql |-> executedSql,
                                                errors |-> <<>>]),
                                <<GetAdapter, build, execute>>)
  /\ UNCHANGED splitterVars

\* db:drop-table
DropTable ==
  /\ \E built \in TextOutcomes :
       LET build == Call("buildDropTable", <<>>, built)
       IN  IF built.threw
             THEN Answers("db:drop-table", error(ErrorMessage(built.err)),
                          <<GetAdapter, build>>)
             ELSE \E done \in TransactionOutcomes :
                    LET execute == Call("executeTransaction",
                                        <<[sql |-> built.value, params |-> <<>>]>>, done)
                    IN  Answers("db:drop-table",
                                IF done.threw
                                  THEN error(ErrorMessage(done.err))
                                  ELSE success([success |-> TRUE,
                                                executedSql |-> <<built.value>>]),
                                <<GetAdapter, build, execute>>)
  /\ UNCHANGED splitterVars

\* A handler whose try block makes one call fn and answers with what it
\* returns.
Fetches(ch, fn) ==
  \E o \in TextOutcomes :
    Answers(ch, IF o.threw THEN error(ErrorMessage(o.err)) ELSE success(o.value),
            <<Call(fn, <<>>, o)>>)

\* db:get-table-ddl
GetTableDdl ==
  /\ Fetches("db:get-table-ddl", "getTableDDL")
  /\ UNCHANGED splitterVars

\* db:get-sequences
GetSequences ==
  /\ Fetches("db:get-sequences", "getSequences")
  /\ UNCHANGED splitterVars

\* db:get-types
GetTypes ==
  /\ Fetches("db:get-types", "getTypes")
  /\ UNCHANGED splitterVars

\* db:preview-ddl
PreviewDdl ==
  /\ Fetches("db:preview-ddl", "buildPreviewDDL")
  /\ UNCHANGED splitterVars

\* A handler wrapped by wrapHandler is invoked.
InvokeWrapped ==
  /\ \E o \in TextOutcomes :
       Answers("wrapHandler", wrapHandler(o), <<Call("handler", <<>>, o)>>)
  /\ UNCHANGED splitterVars

\* A handler wrapped by wrapSyncHandler is invoked.
InvokeWrappedSync ==
  /\ \E o \in TextOutcomes :
       Answers("wrapSyncHandler", wrapSyncHandler(o), <<Call("handler", <<>>, o)>>)
  /\ UNCHANGED splitterVars

DdlInit == SavedInit

DdlNext ==
  \/ CreateTable
  \/ AlterTable
  \/ DropTable
  \/ GetTableDdl
  \/ GetSequences
  \/ GetTypes
  \/ PreviewDdl
  \/ InvokeWrapped
  \/ InvokeWrappedSync

\* The DDL handlers and the wrapped handlers, invoked one after the other
\* in any order.
DdlSpec == DdlInit /\ [][DdlNext]_vars

(* ------------------------------- claims ------------------------------- *)

\* The scan of the text t has returned.
Returned(t) == pc = "done" /\ sql = t

\* The text is q, a body without any character of stop, q again, then `;`.
Enclosed(t, open, close, stop) ==
  /\ Len(t) >= 3
  /\ t[1] = open
  /\ t[Len(t) - 1] = close
  /\ t[Len(t)] = ";"
  /\ \A k \in 2 .. Len(t) - 2 : t[k] \notin stop

\* The text without its last character.
ButLast(t) == SubSeq(t, 1, Len(t) - 1)

\* C1: in every dialect a `;` inside a terminated single-quoted string is
\* no statement boundary: SELECT ';' AS x; SELECT 2; returns exactly
\* SELECT ';' AS x and SELECT 2, and a text that is one quoted string (free
\* of quotes and backslashes inside) followed by `;` returns that string.
C1_SemicolonInString ==
  /\ Returned(InSemiInString) => statements = <<OutSemiInString, OutSelect2>>
  /\ (pc = "done" /\ Enclosed(sql, "'", "'", {"'", "\\"}))
       => statements = <<ButLast(sql)>>

C1_Witness ==
  /\ Returned(InSemiInString)
  /\ dbType = "sqlite"
  /\ statements = <<OutSemiInString, OutSelect2>>

\* C2: under postgresql the semicolons between an opening dollar tag and
\* its closing tag are no boundaries: DO $$ BEGIN SELECT 1; END; $$; SELECT 2;
\* returns exactly DO $$ BEGIN SELECT 1; END; $$ and SELECT 2, and a text
\* $$ body $$ ; whose body holds no `$` returns the dollar-quoted string.
C2_DollarQuoted ==
  dbType = "postgresql" =>
    /\ Returned(InDollarBlock) => statements = <<OutDollarBlock, OutSelect2>>
    /\ (pc = "done" /\ Len(sql) >= 5 /\ SubSeq(sql, 1, 2) = <<"$", "$">>
          /\ SubSeq(sql, Len(sql) - 2, Len(sql)) = <<"$", "$", ";">>
          /\ \A k \in 3 .. Len(sql) - 3 : sql[k] # "$")
         => statements = <<ButLast(sql)>>

C2_Witness ==
  /\ Returned(InDollarBlock)
  /\ dbType = "postgresql"
  /\ statements = <<OutDollarBlock, OutSelect2>>

\* C3: with nestedBlockComments an inner */ does not end the outer block
\* comment: SELECT 1 /* outer /* inner */ still... */; SELECT 2; returns
\* exactly two statements, the first ending with the outer */, and a `;`
\* between the inner and the outer */ is no boundary.
C3_NestedComment ==
  config.nestedBlockComments =>
    /\ Returned(InNestedComment) => statements = <<OutNestedComment, OutSelect2>>
    /\ Returned(InNestedSemi) => statements = <<OutNestedSemi, OutSelect2>>

C3_Witness ==
  /\ Returned(InNestedSemi)
  /\ dbType = "postgresql"
  /\ statements = <<OutNestedSemi, OutSelect2>>

\* C4: under mysql a quote after a backslash does not close a single-quoted
\* string and a `;` inside a backtick-quoted identifier is no separator:
\* the text of InMysqlEscapes returns exactly its two statements.
C4_MysqlEscapes ==
  (dbType = "mysql" /\ Returned(InMysqlEscapes))
    => statements = <<OutMysqlString, OutMysqlBacktick>>

C4_Witness ==
  /\ Returned(InMysqlEscapes)
  /\ dbType = "mysql"
  /\ statements = <<OutMysqlString, OutMysqlBacktick>>

\* C5: with bracketIdentifiers a `;` between `[` and the closing `]` is
\* no separator, a doubled `]]` does not close the region and a single `]`
\* does: SELECT [col;name] FROM t; returns exactly SELECT [col;name] FROM t.
C5_BracketIdentifier ==
  config.bracketIdentifiers =>
    /\ Returned(InBracket) => statements = <<OutBracket>>
    /\ Returned(InDoubledBracket) => statements = <<OutDoubledBracket, OutSelect2>>
    /\ (pc = "done" /\ Enclosed(sql, "[", "]", {"]"}))
         => statements = <<ButLast(sql)>>

C5_Witness ==
  /\ Returned(InDoubledBracket)
  /\ dbType = "mssql"
  /\ statements = <<OutDoubledBracket, OutSelect2>>

\* The last element of a non-empty sequence.
Last(q) == q[Len(q)]

\* The number of characters the cuts account for: each raw segment and
\* the `;` that ended it.
RECURSIVE CutLen(_)
CutLen(q) == IF q = <<>> THEN 0 ELSE Len(Head(q)) + 1 + CutLen(Tail(q))

\* The raw segments each followed by its `;`, in one text.
RECURSIVE Joined(_)
Joined(q) == IF q = <<>> THEN <<>> ELSE Head(q) \o <<";">> \o Joined(Tail(q))

\* The trimmed segments that are not empty, in order.
RECURSIVE Kept(_)
Kept(q) ==
  IF q = <<>> THEN <<>>
  ELSE IF Trim(Head(q)) = <<>> THEN Kept(Tail(q))
  ELSE <<Trim(Head(q))>> \o Kept(Tail(q))

\* C6: in every state of every scan each completed statement is a non-empty
\* text without leading or trailing whitespace; segments empty after
\* trimming are dropped: ;; SELECT 1; ; ; returns exactly SELECT 1.
C6_StatementsTrimmed ==
  /\ \A k \in 1 .. Len(statements) :
       /\ statements[k] # <<>>
       /\ ~IsWhitespace(Head(statements[k]))
       /\ ~IsWhitespace(Last(statements[k]))
  /\ Returned(InEmptySegments) => statements = <<OutSelect1>>

C6_Witness ==
  /\ Returned(InEmptySegments)
  /\ Len(cut) = 5
  /\ statements = <<OutSelect1>>

\* C7: when the text ends without a top-level separator the rest, if not
\* empty after trimming, is the last statement returned: SELECT 1 returns
\* exactly SELECT 1, and for every text the part after the last top-level
\* `;` is returned trimmed unless it is all whitespace.
C7_LastStatement ==
  /\ Returned(InNoSeparator) => statements = <<OutSelect1>>
  /\ pc = "done" =>
       LET rest == SubSeq(sql, CutLen(cut) + 1, Len(sql))
       IN  /\ TrimStart(rest) # <<>>
             => (statements # <<>> /\ Last(statements) = TrimEnd(TrimStart(rest)))
           /\ TrimStart(rest) = <<>> => statements = Kept(cut)

C7_Witness ==
  /\ Returned(InNoSeparator)
  /\ cut = <<>>
  /\ statements = <<OutSelect1>>

\* The text opens a region of the configuration at its first character
\* and holds no closing delimiter of that region.
Unterminated(t, cfg) ==
  /\ t # <<>>
  /\ \/ t[1] = "'" /\ \A k \in 2 .. Len(t) : t[k] # "'"
     \/ t[1] = "\"" /\ \A k \in 2 .. Len(t) : t[k] # "\""
     \/ cfg.backtickIdentifiers /\ t[1] = BacktickChar
          /\ \A k \in 2 .. Len(t) : t[k] # BacktickChar
     \/ cfg.bracketIdentifiers /\ t[1] = "[" /\ \A k \in 2 .. Len(t) : t[k] # "]"
     \/ cfg.dollarQuotes /\ Len(t) >= 2 /\ SubSeq(t, 1, 2) = <<"$", "$">>
          /\ \A k \in 3 .. Len(t) - 1 : SubSeq(t, k, k + 1) # <<"$", "$">>
     \/ Len(t) >= 2 /\ SubSeq(t, 1, 2) = <<"/", "*">>
          /\ \A k \in 3 .. Len(t) - 1 : SubSeq(t, k, k + 1) # <<"*", "/">>

\* C8: the scan has no error outcome (every state inside the loop has a
\* step, and the loop ends in the return), and an unterminated string,
\* quoted identifier, dollar-quoted string or block comment takes all the
\* remaining text, every later `;` included, into one last statement:
\* SELECT 'abc returns exactly itself.
C8_UnterminatedAbsorbs ==
  /\ pc \in {"scan", "done"}
  /\ pc = "scan" => ENABLED Next
  /\ Returned(InUntermSingle) => statements = <<InUntermSingle>>
  /\ Returned(InUntermSingleMore) => statements = <<OutSelect1, OutUntermSingle>>
  /\ Returned(InUntermDouble) => statements = <<OutSelect1, OutUntermDouble>>
  /\ (config.backtickIdentifiers /\ Returned(InUntermBacktick))
       => statements = <<OutSelect1, OutUntermBacktick>>
  /\ (config.bracketIdentifiers /\ Returned(InUntermBracket))
       => statements = <<OutSelect1, OutUntermBracket>>
  /\ (config.dollarQuotes /\ Returned(InUntermDollar))
       => statements = <<OutSelect1, OutUntermDollar>>
  /\ Returned(InUntermComment) => statements = <<OutSelect1, OutUntermComment>>
  /\ (pc = "done" /\ Unterminated(sql, config)) => statements = <<TrimEnd(sql)>>

C8_Witness ==
  /\ Returned(InUntermDollar)
  /\ dbType = "postgresql"
  /\ statements = <<OutSelect1, OutUntermDollar>>

\* C9: no character other than a separator is lost, duplicated or
\* reordered: in every state the raw segments cut so far, each followed by
\* its `;`, and then the buffer, spell the consumed prefix of the text, and
\* the statements are the trimmed non-empty segments in order (with the
\* last buffer once the scan has returned).
C9_NothingLost ==
  /\ Joined(cut) \o current = SubSeq(sql, 1, i)
  /\ pc = "scan" => statements = Kept(cut)
  /\ pc = "done" => (i = Len(sql) /\ statements = Kept(Append(cut, current)))

C9_Witness ==
  /\ Returned(InNestedSemi)
  /\ dbType = "mysql"
  /\ Len(cut) = 2
  /\ Len(statements) = 3

\* C10: the scan terminates: the cursor never decreases, strictly
\* increases on every iteration of the outer loop, never exceeds the
\* length of the text and equals it when the scan has ended, and every
\* scan reaches its return.
C10_Terminates ==
  /\ [](i \in 0 .. Len(sql) /\ (pc = "done" => i = Len(sql)))
  /\ [][i' >= i /\ (pc' = "scan" => i' > i)]_vars
  /\ <>(pc = "done")

C10_Witness ==
  /\ pc = "done"
  /\ dbType = "postgresql"
  /\ sql = <<"$", "a", ";">>
  /\ i = Len(sql)
  /\ statements = <<<<"$", "a">>>>

Flags(c) ==
  <<c.dollarQuotes, c.nestedBlockComments, c.backtickIdentifiers,
    c.backslashEscape, c.hashLineComment, c.bracketIdentifiers>>

\* C12: the configuration table has an entry for each of the four dialects
\* and no other, with exactly the flags postgresql = (T,T,F,F,F,F),
\* mysql = (F,F,T,T,T,F), mssql = (F,F,F,F,F,T), sqlite = (F,F,T,F,F,T),
\* in every state of every scan (no scan modifies it).
C12_ConfigTable ==
  /\ DOMAIN table = {"postgresql", "mysql", "mssql", "sqlite"}
  /\ Flags(table["postgresql"]) = <<TRUE, TRUE, FALSE, FALSE, FALSE, FALSE>>
  /\ Flags(table["mysql"]) = <<FALSE, FALSE, TRUE, TRUE, TRUE, FALSE>>
  /\ Flags(table["mssql"]) = <<FALSE, FALSE, FALSE, FALSE, FALSE, TRUE>>
  /\ Flags(table["sqlite"]) = <<FALSE, FALSE, TRUE, FALSE, FALSE, TRUE>>
  /\ \A d \in DOMAIN table :
       DOMAIN table[d] = {"dollarQuotes", "nestedBlockComments", "backtickIdentifiers",
                          "backslashEscape", "hashLineComment", "bracketIdentifiers"}

C12_Witness ==
  /\ Returned(InUntermBacktick)
  /\ dbType = "sqlite"
  /\ config.backtickIdentifiers
  /\ statements = <<OutSelect1, OutUntermBacktick>>

\* C13 as claimed: a remainder of whitespace and comments after the last
\* top-level separator adds no statement: SELECT 1; -- done returns
\* exactly SELECT 1.
C13_CommentRemainderDiscarded ==
  Returned(InTrailingComment) => statements = <<OutSelect1>>

\* What the code returns for SELECT 1; -- done: the comment as a second
\* statement.
C13_CodeReturnsComment ==
  Returned(InTrailingComment) => statements = <<OutSelect1, OutTrailingComment>>

\* C16: inside a region the delimiters of the other regions have no
\* effect: a quote or backtick inside a --, # or block comment opens
\* nothing, and --, /*, # or $$ inside a single-quoted string opens nothing;
\* the top-level `;` after the region is a separator.  A text that is one
\* -- comment without a newline returns that comment, whatever it holds.
C16_RegionsDoNotNest ==
  /\ Returned(InQuoteInLineComment)
       => statements = <<OutQuoteInLineComment, OutSelect2>>
  /\ Returned(InQuotesInBlockComment)
       => statements = <<OutQuotesInBlockComment, OutSelect2>>
  /\ (config.hashLineComment /\ Returned(InQuoteInHashComment))
       => statements = <<OutQuoteInHashComment, OutSelect2>>
  /\ Returned(InCommentsInString) => statements = <<OutCommentsInString, OutSelect2>>
  /\ (pc = "done" /\ Len(sql) >= 2 /\ SubSeq(sql, 1, 2) = <<"-", "-">>
        /\ \A k \in 1 .. Len(sql) : sql[k] # "\n")
       => statements = <<TrimEnd(sql)>>

C16_Witness ==
  /\ Returned(InQuoteInLineComment)
  /\ dbType = "mysql"
  /\ statements = <<OutQuoteInLineComment, OutSelect2>>

\* C17: without nestedBlockComments (mysql, mssql, sqlite) the first */
\* after the opening /* closes the block comment whatever /* lies between,
\* so in /* a /* b */ ; c */ ; SELECT 2 the first `;` is a separator; with
\* nestedBlockComments (postgresql) it is not.
C17_PlainBlockComment ==
  /\ (dbType \in {"mysql", "mssql", "sqlite"} /\ Returned(InBlockNoNest))
       => statements = <<OutBlockInner, OutBlockTail, OutSelect2>>
  /\ (dbType = "postgresql" /\ Returned(InBlockNoNest))
       => statements = <<OutBlockOuter, OutSelect2>>

C17_Witness ==
  /\ Returned(InBlockNoNest)
  /\ dbType = "sqlite"
  /\ cut = <<OutBlockInner \o <<" ">>, <<" ">> \o OutBlockTail \o <<" ">>>>
  /\ statements = <<OutBlockInner, OutBlockTail, OutSelect2>>

\* The position in t of the delimiter q that closes the region whose body
\* starts at k, or 0 when there is none: a doubled q does not close, nor
\* does a q after a backslash when esc is set.
RECURSIVE FirstClose(_, _, _, _)
FirstClose(t, q, k, esc) ==
  IF k > Len(t) THEN 0
  ELSE IF t[k] = q /\ k < Len(t) /\ t[k + 1] = q THEN FirstClose(t, q, k + 2, esc)
  ELSE IF esc /\ t[k] = "\\" /\ k < Len(t) /\ t[k + 1] = q
    THEN FirstClose(t, q, k + 2, esc)
  ELSE IF t[k] = q THEN k
  ELSE FirstClose(t, q, k + 1, esc)

\* For a returned text that starts with the delimiter q: the `;` right
\* after the closing delimiter is the first separator, and without a
\* closing delimiter the text has no separator.
ClosesAtFirstClose(q, esc) ==
  (pc = "done" /\ sql # <<>> /\ sql[1] = q) =>
    LET p == FirstClose(sql, q, 2, esc)
    IN  /\ (p > 0 /\ p < Len(sql) /\ sql[p + 1] = ";")
             => (cut # <<>> /\ cut[1] = SubSeq(sql, 1, p))
        /\ p = 0 => cut = <<>>

\* For a text that starts with the delimiter q: the step that handles the
\* region ends right after the closing delimiter, or at the end of the
\* text without one, and the buffer holds the text up to there.
ClosesInOneStep(q, esc) ==
  (pc = "scan" /\ i = 0 /\ sql # <<>> /\ sql[1] = q) =>
    LET p == FirstClose(sql, q, 2, esc)
    IN  /\ i' = (IF p = 0 THEN Len(sql) ELSE p)
        /\ current' = SubSeq(sql, 1, i')

\* A `;` after a doubled delimiter inside the region is no separator.
DoubledExamples ==
  /\ Returned(InDoubledSingle) => statements = <<OutDoubledSingle, OutSelect2>>
  /\ Returned(InDoubledDouble) => statements = <<OutDoubledDouble, OutSelect2>>

\* C18 as claimed: in every dialect a doubled delimiter does not close a
\* single-quoted string or a double-quoted identifier and any other
\* occurrence of the delimiter does.
C18_OnlyDoublingKeepsOpen ==
  /\ DoubledExamples
  /\ ClosesAtFirstClose("'", FALSE)
  /\ ClosesAtFirstClose("\"", FALSE)

\* C18, amended: as claimed, except that with backslashEscape (mysql) a
\* single quote right after a backslash does not close the single-quoted
\* string either.  The double-quoted identifier is as claimed in all four
\* dialects.
C18_DoublingKeepsOpen ==
  /\ [](/\ DoubledExamples
        /\ ClosesAtFirstClose("'", config.backslashEscape)
        /\ ClosesAtFirstClose("\"", FALSE))
  /\ [][/\ ClosesInOneStep("'", config.backslashEscape)
        /\ ClosesInOneStep("\"", FALSE)]_vars

C18_Witness ==
  /\ Returned(InDoubledDouble)
  /\ dbType = "mssql"
  /\ statements = <<OutDoubledDouble, OutSelect2>>

\* C19: backslash escaping applies only with backslashEscape: under
\* postgresql, mssql and sqlite the string 'a\' is closed by its second
\* quote and SELECT 'a\'; SELECT 2 returns two statements; under mysql the
\* string stays open and the text returns one statement.
C19_BackslashOnlyMysql ==
  /\ (dbType \in {"postgresql", "mssql", "sqlite"} /\ Returned(InBackslashQuote))
       => statements = <<OutBackslashQuote, OutSelect2>>
  /\ (dbType = "mysql" /\ Returned(InBackslashQuote))
       => statements = <<InBackslashQuote>>

C19_Witness ==
  /\ Returned(InBackslashQuote)
  /\ dbType = "sqlite"
  /\ statements = <<OutBackslashQuote, OutSelect2>>

\* C20: a backtick, `[`, `#` or `$` opens a region only with the flag of
\* the dialect set; otherwise it is an ordinary character and a following
\* `;` is a separator.  The backtick text returns two statements under
\* postgresql and mssql and one under mysql and sqlite; SELECT 1 # x; y
\* returns two statements under every dialect but mysql.
C20_FlagsGateRegions ==
  /\ Returned(InBacktickSemi) =>
       statements = IF dbType \in {"mysql", "sqlite"}
                      THEN <<InBacktickSemi>>
                      ELSE <<OutBacktickHead, OutBacktickTail>>
  /\ Returned(InHashSemi) =>
       statements = IF dbType = "mysql"
                      THEN <<InHashSemi>>
                      ELSE <<OutHashHead, OutY>>
  /\ Returned(InBracketSemi) =>
       statements = IF dbType \in {"mssql", "sqlite"}
                      THEN <<InBracketSemi>>
                      ELSE <<OutBracketHead, OutBracketTail>>
  /\ Returned(InDollarSemi) =>
       statements = IF dbType = "postgresql"
                      THEN <<InDollarSemi>>
                      ELSE <<OutDollarHead, OutDollarTail>>

C20_Witness ==
  /\ Returned(InBacktickSemi)
  /\ dbType = "postgresql"
  /\ ~config.backtickIdentifiers
  /\ statements = <<OutBacktickHead, OutBacktickTail>>

\* C14: calls whose steps interleave share no mutable state: each call
\* returns the list it returns when run alone, the same text and dialect
\* give the same list, and the configuration table is left as it was.
C14_CallsIndependent ==
  /\ table = SQL_PARSER_CONFIGS
  /\ pc = "done" => statements = SplitStatements(sql, dbType)
  /\ other.pc = "done" => other.statements = SplitStatements(other.sql, other.dbType)
  /\ (pc = "done" /\ other.pc = "done" /\ sql = other.sql /\ dbType = other.dbType)
       => statements = other.statements

C14_Witness ==
  /\ pc = "done"
  /\ other.pc = "done"
  /\ sql = ConcIdents
  /\ dbType = "mysql"
  /\ other.sql = ConcComments
  /\ other.dbType = "postgresql"
  /\ Len(statements) = 2
  /\ Len(other.statements) = 2

\* C15: for every dialect d and text t the function createStatementSplitter(d)
\* returns, called with t, returns the list splitStatements(t, d) returns,
\* and a splitter stays bound to its dialect while splitters for other
\* dialects are created and called.
C15_SplitterIsBoundCall ==
  /\ \A d \in DOMAIN splitters : splitters[d] = [dbType |-> d]
  /\ other.pc # "none" => other.dbType = other.via
  /\ other.pc = "done" => other.statements = SplitStatements(other.sql, other.via)
  /\ (pc = "done" /\ other.pc = "done" /\ sql = other.sql /\ dbType = other.via)
       => other.statements = statements

C15_Witness ==
  /\ DOMAIN splitters = {"mysql", "sqlite", "mssql"}
  /\ other.pc = "done"
  /\ other.via = "sqlite"
  /\ other.sql = ConcIdents
  /\ other.statements = <<<<BacktickChar, ";", BacktickChar, "[", ";", "]", "a">>>>
  /\ pc = "done"
  /\ sql = ConcIdents
  /\ dbType = "sqlite"

\* The least element of a non-empty set of numbers.
MinOf(S) == CHOOSE p \in S : \A q \in S : p <= q

\* The index after the run of tag characters that follows index k of t.
TagRunEnd(t, k) ==
  CHOOSE j \in (k + 1) .. Len(t) :
    /\ j = Len(t) \/ ~IsTagChar(At(t, j))
    /\ \A m \in (k + 1) .. (j - 1) : IsTagChar(At(t, m))

\* The `$` at index k of t is followed by a run of tag characters ended by
\* a second `$`.
HasDollarTag(t, k) == At(t, TagRunEnd(t, k)) = "$"

\* The text T occurs in t at index p.
Occurs(t, T, p) == p + Len(T) <= Len(t) /\ SubSeq(t, p + 1, p + Len(T)) = T

\* The outer loop is at a `$` under postgresql.
AtDollar == pc = "scan" /\ dbType = "postgresql" /\ i < Len(sql) /\ At(sql, i) = "$"

\* This step takes the text from the cursor up to index e into the buffer
\* and completes no statement.
TakesUpTo(e) ==
  /\ i' = e
  /\ current' = current \o SubSeq(sql, i + 1, e)
  /\ statements' = statements

\* C21: under postgresql a `$` that is not followed by a run of tag
\* characters ended by a second `$` opens no region: the step appends it to
\* the buffer and advances the cursor by one.  SELECT $1; SELECT $2 returns
\* two statements and a lone `$` at the end of the text is kept.
C21_DollarOrdinary ==
  /\ [](/\ (Returned(InDollarParams) /\ dbType = "postgresql")
             => statements = <<OutDollarParam1, OutDollarParam2>>
        /\ (Returned(InLoneDollar) /\ dbType = "postgresql")
             => statements = <<InLoneDollar>>)
  /\ [][(AtDollar /\ ~HasDollarTag(sql, i))
          => (current' = current \o <<"$">> /\ TakesUpTo(i + 1))]_vars

C21_Witness ==
  /\ Returned(InDollarParams)
  /\ dbType = "postgresql"
  /\ statements = <<OutDollarParam1, OutDollarParam2>>

\* C22: under postgresql the region opened by the tag T ends after the
\* first occurrence of T that starts at or after the end of the opening
\* tag, and at the end of the text when there is none: $foo$ is not closed
\* by $bar$.
C22_ExactTagCloses ==
  /\ [](/\ (Returned(InTagMismatch) /\ dbType = "postgresql")
             => statements = <<OutTagMismatch, OutC>>
        /\ (Returned(InTagUnclosed) /\ dbType = "postgresql")
             => statements = <<InTagUnclosed>>)
  /\ [][(AtDollar /\ HasDollarTag(sql, i)) =>
          LET T      == SubSeq(sql, i + 1, TagRunEnd(sql, i) + 1)
              closes == {p \in (i + Len(T)) .. Len(sql) : Occurs(sql, T, p)}
          IN  TakesUpTo(IF closes = {} THEN Len(sql) ELSE MinOf(closes) + Len(T))]_vars

C22_Witness ==
  /\ Returned(InTagMismatch)
  /\ dbType = "postgresql"
  /\ statements = <<OutTagMismatch, OutC>>
  /\ cut = <<OutTagMismatch>>

\* The index of the first newline of t at or after index k, or the length
\* of t.
LineEnd(t, k) ==
  MinOf({j \in k .. Len(t) : j = Len(t) \/ At(t, j) = "\n"})

\* The outer loop is at the start of a line comment.
AtLineComment ==
  /\ pc = "scan"
  /\ i < Len(sql)
  /\ \/ At(sql, i) = "-" /\ At(sql, i + 1) = "-"
     \/ dbType = "mysql" /\ At(sql, i) = "#"

\* C23: a -- comment (every dialect) and a # comment (mysql) run up to but
\* not including the next newline, or to the end of the text; the comment
\* is kept in the buffer, a `;` in it is no separator and a `;` on the next
\* line is one again.
C23_LineCommentToNewline ==
  /\ [](/\ Returned(InLineCommentSemi)
             => statements = <<OutLineCommentSemi, OutSelect2>>
        /\ (Returned(InHashCommentSemi) /\ dbType = "mysql")
             => statements = <<OutHashCommentSemi, OutSelect2>>)
  /\ [][AtLineComment => TakesUpTo(LineEnd(sql, i))]_vars

C23_Witness ==
  /\ Returned(InLineCommentSemi)
  /\ dbType = "sqlite"
  /\ statements = <<OutLineCommentSemi, OutSelect2>>
  /\ cut = <<OutLineCommentSemi \o <<"\n">>>>

\* The statements of q occur in t one after the other, from index from on.
RECURSIVE InOrderFrom(_, _, _)
InOrderFrom(q, t, from) ==
  \/ q = <<>>
  \/ LET hits == {p \in from .. Len(t) : Occurs(t, Head(q), p)}
     IN  /\ hits # {}
         /\ InOrderFrom(Tail(q), t, MinOf(hits) + Len(Head(q)))

\* The number of `;` characters of t.
Semicolons(t) == Cardinality({k \in 1 .. Len(t) : t[k] = ";"})

\* C24: the list of completed statements only grows at its end, by one
\* statement, when the cursor is on a `;` of the outer loop or at the end
\* of the text; the statements occur in the input in the order of the
\* list, and there are at most one more of them than `;` characters.
C24_AppendOnly ==
  /\ [](/\ InOrderFrom(statements, sql, 0)
        /\ Len(statements) <= Semicolons(sql) + 1)
  /\ [][\/ statements' = statements
        \/ /\ pc = "scan"
           /\ At(sql, i) = ";" \/ i = Len(sql)
           /\ Trim(current) # <<>>
           /\ statements' = Append(statements, Trim(current))]_vars

C24_Witness ==
  /\ Returned(InTagMismatch)
  /\ dbType = "mysql"
  /\ Len(statements) = 4
  /\ statements[4] = OutC

\* C25: with backslashEscape (mysql) a single quote right after a
\* backslash never ends a single-quoted string, also when that backslash
\* follows another backslash, and a backslash outside a string is an
\* ordinary character: 'a\\' stays open and takes the `; SELECT 2` after
\* it.
C25_BackslashBeforeQuote ==
  /\ []((Returned(InDoubleBackslash) /\ dbType = "mysql")
          => statements = <<InDoubleBackslash>>)
  /\ [][/\ (pc = "scan" /\ config.backslashEscape /\ At(sql, i) = "'")
             => \A k \in (i + 2) .. (Len(sql) - 2) :
                  (At(sql, k) = "'" /\ At(sql, k - 1) = "\\") => i' # k + 1
        /\ (pc = "scan" /\ At(sql, i) = "\\")
             => (current' = current \o <<"\\">> /\ TakesUpTo(i + 1))]_vars

C25_Witness ==
  /\ Returned(InDoubleBackslash)
  /\ dbType = "mysql"
  /\ statements = <<InDoubleBackslash>>
  /\ cut = <<>>

\* The indexes of the queries of list with the id.
Matches(list, id) == {k \in 1 .. Len(list) : list[k].id = id}

\* The step is an invocation of the channel ch in which store.get returned.
Invokes(ch) == request'.channel = ch /\ ~calls'[1].out.threw

\* C28: whatever the stored list, saved-queries:update and
\* saved-queries:increment-usage with an id that matches no stored query
\* answer {success: false, error: 'Saved query not found'}, leave the list
\* as it is and do not call store.set; increment-usage with a matching id
\* raises the usageCount of the first match by one and leaves every other
\* query and the order of the list as they are.
C28_NotFoundAndIncrement ==
  [][/\ (/\ Invokes("saved-queries:update") \/ Invokes("saved-queries:increment-usage")
         /\ Matches(store, request'.id) = {})
          => /\ response' = [success |-> FALSE, error |-> SavedQueryNotFound]
             /\ store' = store
             /\ \A k \in 1 .. Len(calls') : calls'[k].fn # "store.set"
     /\ (/\ Invokes("saved-queries:increment-usage")
         /\ Matches(store, request'.id) # {})
          => LET first == MinOf(Matches(store, request'.id))
             IN  /\ Len(store') = Len(store)
                 /\ store'[first].usageCount = store[first].usageCount + 1
                 /\ store'[first].id = store[first].id
                 /\ \A k \in 1 .. Len(store) : k # first => store'[k] = store[k]]_vars

C28_Witness ==
  /\ request.channel = "saved-queries:increment-usage"
  /\ request.id = "q2"
  /\ Len(store) = 2
  /\ store[1].id = "q2"
  /\ store[2].id = "q2"
  /\ store[1].usageCount = 1
  /\ store[2].usageCount = 0
  /\ response.success
  /\ response.data = store[1]

\* The last invocation ended with a collaborator throwing.
Threw == calls # <<>> /\ Last(calls).out.threw

\* The message of the value the last invocation's collaborator threw.
ThrownMessage ==
  LET e == Last(calls).out.err
  IN  IF e.kind = "Error" THEN e.message ELSE e.value

\* C26: a handler in whose work a collaborator throws answers with
\* {success: false, error: <message>}: the wrapped handlers, and
\* db:create-table, db:alter-table and db:drop-table when
\* executeTransaction throws.
C26_UniformErrorEnvelope ==
  Threw => response = [success |-> FALSE, error |-> ThrownMessage]

\* What the code does: every handler but db:alter-table answers a throw
\* with the error envelope; db:alter-table answers {success: true} with
\* the message in the errors of its data.
C26_CodeEnvelopes ==
  Threw =>
    IF request.channel = "db:alter-table"
      THEN /\ response.success
           /\ ~response.data.success
           /\ response.data.errors = <<ThrownMessage>>
      ELSE response = [success |-> FALSE, error |-> ThrownMessage]

\* The calls of the last invocation to the function fn.
CallsTo(fn) == {k \in 1 .. Len(calls) : calls[k].fn = fn}

\* The statement st without the `;` that ends it.
Piece(st) == IF st # <<>> /\ st[Len(st)] = ";" THEN ButLast(st) ELSE st

\* C27: db:create-table calls validateTableDefinition first; on an invalid
\* definition it answers {success: false, error: the errors joined by
\* '; '} and calls neither buildCreateTable nor executeTransaction; on a
\* valid one whose statements were built it makes one executeTransaction
\* call with all the statements, in the order of the text and each with
\* no parameters.
C27_ValidatesFirst ==
  request.channel = "db:create-table" =>
    LET validation == calls[1].out.value
        builds     == CallsTo("buildCreateTable")
        executes   == CallsTo("executeTransaction")
    IN  /\ calls[1].fn = "validateTableDefinition"
        /\ ~validation.valid =>
             /\ response = [success |-> FALSE,
                            error |-> Join(validation.errors, <<";", " ">>)]
             /\ validation.errors = <<ErrNoName, ErrNoColumns>>
                  => response.error = ErrNoName \o <<";", " ">> \o ErrNoColumns
             /\ builds = {}
             /\ executes = {}
        /\ validation.valid =>
             /\ Cardinality(builds) = 1
             /\ Cardinality(executes) <= 1
             /\ \A b \in builds : ~calls[b].out.threw =>
                  /\ executes = {b + 1}
                  /\ LET text == calls[b].out.value.sql
                         args == calls[b + 1].args
                     IN  /\ \A k \in 1 .. Len(args) :
                               /\ args[k].params = <<>>
                               /\ Trim(args[k].sql) # <<>>
                               /\ Trim(args[k].sql)[Len(Trim(args[k].sql))] = ";"
                         /\ InOrderFrom([k \in 1 .. Len(args) |-> Piece(args[k].sql)],
                                        text, 0)
                         /\ (\A p \in 1 .. Len(text) : text[p] # ";")
                              => args = IF Trim(text) = <<>> THEN <<>>
                                        ELSE <<[sql |-> text \o <<";">>, params |-> <<>>]>>
                         /\ text = DdlCreateBlock
                              => args = <<[sql |-> StmtCreate, params |-> <<>>],
                                          [sql |-> StmtComment, params |-> <<>>],
                                          [sql |-> StmtIndex, params |-> <<>>]>>
                         /\ text = DdlSpacedBlock
                              => args = <<[sql |-> <<"a", ";">>, params |-> <<>>],
                                          [sql |-> <<"b", ";">>, params |-> <<>>]>>

C27_Witness ==
  /\ request.channel = "db:create-table"
  /\ Len(calls) = 4
  /\ calls[1].out.value.valid
  /\ calls[3].out.value.sql = DdlCreateBlock
  /\ Len(calls[4].args) = 3
  /\ ~calls[4].out.threw
  /\ response.success

====
